---- MODULE Spec2Model ----
(***************************************************************************)
(* EisenMatrix Calendar: the task collection, the editor (TaskModal), the  *)
(* view filter and the recurrence helpers of src/lib/utils.ts.             *)
(*                                                                         *)
(* Time.  A JavaScript Date / timestamp is an integer number of HOURS      *)
(* since 1970-01-01T00:00Z (the code never looks below the day, so the     *)
(* hour is fine enough to tell local midnight from a later time of day     *)
(* and a local day from a UTC day).  The host's UTC offset is the variable *)
(* tz (hours, fixed for a run, no daylight saving).                        *)
(*                                                                         *)
(* Strings.  A task's date string "YYYY-MM-DD" is the tuple <<y, m, d>> of *)
(* its three numeric components; period keys and stringified history       *)
(* values are real strings.                                                *)
(***************************************************************************)
EXTENDS Integers, Sequences, FiniteSets, TLC

VARIABLES
    tz,                   \* host UTC offset in hours
    now,                  \* wall clock, Date.now()
    tasks,                \* App state: Task[]
    nextId,               \* ids handed out by generateId() so far
    currentDate,          \* App state: the viewed date
    viewMode,             \* App state: Day / Week / Month / Year
    isModalOpen,          \* App state
    editingTask,          \* App state: the task object handed to the editor
    selectedContextDate,  \* App state: Date or null
    formData,             \* TaskModal state
    isImportModalOpen,    \* App state
    parsedIncomingTasks,  \* App state: candidates returned by parseCSV
    selectedIds,          \* ImportResolutionModal state: selected row indices
    probe                 \* inputs/outputs of the pure-function specifications

vars == <<tz, now, tasks, nextId, currentDate, viewMode, isModalOpen,
          editingTask, selectedContextDate, formData,
          isImportModalOpen, parsedIncomingTasks, selectedIds, probe>>

-----------------------------------------------------------------------------
(* Enumerations of src/types.ts *)

HIGH == "High"
LOW == "Low"
TODO == "To Do"
IN_PROGRESS == "In Progress"
DONE == "Done"
DAY == "Day"
WEEK == "Week"
MONTH == "Month"
YEAR == "Year"
NONE == "None"
DAILY == "Daily"
WEEKLY == "Weekly"
MONTHLY == "Monthly"
YEARLY == "Yearly"

Urgency == {HIGH, LOW}
Importance == {HIGH, LOW}
TaskStatus == {TODO, IN_PROGRESS, DONE}
ViewMode == {DAY, WEEK, MONTH, YEAR}
Frequency == {NONE, DAILY, WEEKLY, MONTHLY, YEARLY}
Recurring == {DAILY, WEEKLY, MONTHLY, YEARLY}

QUADRANTS ==
    [q1 |-> [urgency |-> HIGH, importance |-> HIGH],
     q2 |-> [urgency |-> LOW, importance |-> HIGH],
     q3 |-> [urgency |-> HIGH, importance |-> LOW],
     q4 |-> [urgency |-> LOW, importance |-> LOW]]

QuadrantId == {"q1", "q2", "q3", "q4"}

\* JavaScript's undefined, for optional numbers (timestamps are >= 0) ...
undefined == 0 - 1
\* ... for optional strings, and null for the optional objects of App state
undefinedStr == "undefined"
null == [isNull |-> TRUE]
\* null where a Date is expected
nullDate == 0 - 2

-----------------------------------------------------------------------------
(* The Gregorian calendar of the JavaScript Date object.  A day number is  *)
(* the count of days since 1970-01-01.                                     *)

isLeap(y) == (y % 4 = 0 /\ y % 100 # 0) \/ y % 400 = 0

daysInMonth(y, m) ==
    IF m = 2 THEN (IF isLeap(y) THEN 29 ELSE 28)
    ELSE IF m \in {4, 6, 9, 11} THEN 30 ELSE 31

\* new Date(y, m - 1, d): the day number of a civil date.  The year is
\* counted from March (yy, month index mp) in eras of 400 years.
DayOfEra(yoe, mp, d) ==
    yoe * 365 + yoe \div 4 - yoe \div 100 + (153 * mp + 2) \div 5 + d - 1

DaysFromMarch(yy, mp, d) ==
    (yy \div 400) * 146097 + DayOfEra(yy % 400, mp, d) - 719468

DaysFromCivil(y, m, d) ==
    IF m <= 2 THEN DaysFromMarch(y - 1, m + 9, d) ELSE DaysFromMarch(y, m - 3, d)

\* getFullYear / getMonth + 1 / getDate of a day number
YearOfEra(doe) ==
    (doe - doe \div 1460 + doe \div 36524 - doe \div 146096) \div 365

DayOfYear(doe, yoe) == doe - (365 * yoe + yoe \div 4 - yoe \div 100)

CivilOf(year, doy, mp) ==
    IF mp < 10
    THEN <<year, mp + 3, doy - (153 * mp + 2) \div 5 + 1>>
    ELSE <<year + 1, mp - 9, doy - (153 * mp + 2) \div 5 + 1>>

CivilOfDay(year, doy) == CivilOf(year, doy, (5 * doy + 2) \div 153)

CivilOfEra(era, doe, yoe) == CivilOfDay(yoe + era * 400, DayOfYear(doe, yoe))

CivilOfShifted(zz) == CivilOfEra(zz \div 146097, zz % 146097, YearOfEra(zz % 146097))

CivilFromDays(z) == CivilOfShifted(z + 719468)

\* Date#getDay of a day number: 0 = Sunday ... 6 = Saturday
DayOfWeek(z) == (z + 4) % 7

\* The local calendar day a Date falls on, and its local hour
LocalDay(date) == (date + tz) \div 24
LocalHour(date) == (date + tz) % 24

\* new Date(y, m, d, h) from a day number and a local hour
MkDate(day, hour) == day * 24 + hour - tz

\* new Date(y, m - 1, d) at local midnight
MkLocal(y, m, d) == MkDate(DaysFromCivil(y, m, d), 0)

\* date.setHours(0, 0, 0, 0)
setHoursZero(date) == MkDate(LocalDay(date), 0)

\* the civil date <<y, m, d>> of the local day of a Date
Civil(date) == CivilFromDays(LocalDay(date))

getFullYear(date) == Civil(date)[1]
getMonth(date) == Civil(date)[2] - 1
getDate(date) == Civil(date)[3]
getDay(date) == DayOfWeek(LocalDay(date))

Pad2(n) == IF n < 10 THEN "0" \o ToString(n) ELSE ToString(n)

\* The text of a date string <<y, m, d>>
DateStr(s) == ToString(s[1]) \o "-" \o Pad2(s[2]) \o "-" \o Pad2(s[3])

-----------------------------------------------------------------------------
(* date-fns, as called by the repository (default options: en-US locale,   *)
(* weekStartsOn 0, firstWeekContainsDate 1)                                *)

endOfDay(date) == MkDate(LocalDay(date), 23)

\* days from the start of the week to a day of the week
WeekDiff(day, weekStartsOn) == (IF day < weekStartsOn THEN 7 ELSE 0) + day - weekStartsOn

dfStartOfWeek(date, weekStartsOn) ==
    MkDate(LocalDay(date) - WeekDiff(getDay(date), weekStartsOn), 0)

endOfWeek(date, weekStartsOn) ==
    MkDate(LocalDay(date) - WeekDiff(getDay(date), weekStartsOn) + 6, 23)

LastOfMonth(c) == MkDate(DaysFromCivil(c[1], c[2], daysInMonth(c[1], c[2])), 23)

endOfMonth(date) == LastOfMonth(Civil(date))

endOfYear(date) == MkDate(DaysFromCivil(getFullYear(date), 12, 31), 23)

\* local midnights of every day from start's day to end's day
eachDayOfInterval(start, end) ==
    [k \in 1..(LocalDay(end) - LocalDay(start) + 1) |->
        MkDate(LocalDay(start) + k - 1, 0)]

addDays(date, n) == date + 24 * n

addWeeks(date, n) == addDays(date, 7 * n)

\* the day of month is clamped to the length of the target month
ClampDay(y, m, d) == IF d >= daysInMonth(y, m) THEN daysInMonth(y, m) ELSE d

MonthAt(mi, d, hour) ==
    MkDate(DaysFromCivil(mi \div 12, (mi % 12) + 1,
                         ClampDay(mi \div 12, (mi % 12) + 1, d)), hour)

AddMonthsCivil(c, n, hour) == MonthAt(c[1] * 12 + (c[2] - 1) + n, c[3], hour)

addMonths(date, n) == AddMonthsCivil(Civil(date), n, LocalHour(date))

addYears(date, n) == addMonths(date, 12 * n)

\* getWeekYear / startOfWeekYear / getWeek with the default options
WeekYearOf(date, year) ==
    IF date >= dfStartOfWeek(MkLocal(year + 1, 1, 1), 0) THEN year + 1
    ELSE IF date >= dfStartOfWeek(MkLocal(year, 1, 1), 0) THEN year
    ELSE year - 1

getWeekYear(date) == WeekYearOf(date, getFullYear(date))

startOfWeekYear(date) == dfStartOfWeek(MkLocal(getWeekYear(date), 1, 1), 0)

getWeek(date) ==
    ((LocalDay(dfStartOfWeek(date, 0)) - LocalDay(startOfWeekYear(date))) \div 7) + 1

\* format(d, 'yyyy-MM')
YearMonthStr(c) == ToString(c[1]) \o "-" \o Pad2(c[2])

formatYearMonth(date) == YearMonthStr(Civil(date))

-----------------------------------------------------------------------------
(* src/lib/utils.ts *)

\* toISOString().split('T')[0]: the UTC calendar date of the instant
formatDate(date) == CivilFromDays(date \div 24)

\* local midnight of the date string
parseLocalTaskDate(dateString) == MkLocal(dateString[1], dateString[2], dateString[3])

getPeriodKey(date, frequency) ==
    CASE frequency = DAILY -> DateStr(formatDate(date))
      [] frequency = WEEKLY ->
            ToString(getFullYear(date)) \o "-W" \o ToString(getWeek(date))
      [] frequency = MONTHLY -> formatYearMonth(date)
      [] frequency = YEARLY -> ToString(getFullYear(date))
      [] OTHER -> ""

\* a value that JavaScript's || treats as absent
Falsy(v) == v = undefinedStr \/ v = ""

\* lines 66-67: task.completionHistory?.[key] || TaskStatus.TODO
ledgerStatus(ledger, key) ==
    IF key \in DOMAIN ledger /\ ~Falsy(ledger[key]) THEN ledger[key] ELSE TODO

getTaskStatus(task, date) ==
    IF task.frequency = NONE \/ Falsy(task.frequency)
    THEN task.status
    ELSE ledgerStatus(task.completionHistory, getPeriodKey(date, task.frequency))

\* EndedBefore with both instants truncated to the UTC day instead of the
\* local day: C2 does not hold of it
EndedBeforeUtc(task, date) ==
    /\ task.recurrenceEndedAt # undefined
    /\ task.recurrenceEndedAt # 0
    /\ date \div 24 > task.recurrenceEndedAt \div 24

\* lines 72-82: the series has ended before the checked day
EndedBefore(task, date) ==
    /\ task.recurrenceEndedAt # undefined
    /\ task.recurrenceEndedAt # 0
    /\ setHoursZero(date) > setHoursZero(task.recurrenceEndedAt)

\* lines 91-109: the switch on the frequency
sameMonthDay(c1, c2) == c1[3] = c2[3] /\ c1[2] = c2[2]

\* cadenceMatches with the Monthly day of month clamped to the length of the
\* checked month: C13 does not hold of it
cadenceMatchesClamped(frequency, startDate, checkDate) ==
    CASE frequency = DAILY -> TRUE
      [] frequency = WEEKLY -> getDay(checkDate) = getDay(startDate)
      [] frequency = MONTHLY ->
            \/ getDate(checkDate) = getDate(startDate)
            \/ /\ getDate(checkDate) < getDate(startDate)
               /\ getDate(addDays(checkDate, 1)) = 1
      [] frequency = YEARLY -> sameMonthDay(Civil(checkDate), Civil(startDate))
      [] OTHER -> checkDate = startDate

cadenceMatches(frequency, startDate, checkDate) ==
    CASE frequency = DAILY -> TRUE
      [] frequency = WEEKLY -> getDay(checkDate) = getDay(startDate)
      [] frequency = MONTHLY -> getDate(checkDate) = getDate(startDate)
      [] frequency = YEARLY -> sameMonthDay(Civil(checkDate), Civil(startDate))
      [] OTHER -> checkDate = startDate

\* cadenceFrom without the test against the anchor date: C12 does not hold
\* of it
cadenceFromAnyDate(frequency, startDate, checkDate) ==
    cadenceMatches(frequency, startDate, checkDate)

\* lines 84-89: nothing before the anchor date
cadenceFrom(frequency, startDate, checkDate) ==
    IF checkDate < startDate THEN FALSE
    ELSE cadenceMatches(frequency, startDate, checkDate)

\* lines 84-109: the cadence of the task from its anchor date on
CadenceActive(task, date) ==
    cadenceFrom(task.frequency, parseLocalTaskDate(task.date), setHoursZero(date))

isTaskActiveOnDate(task, date) ==
    IF EndedBefore(task, date) THEN FALSE ELSE CadenceActive(task, date)

getRecurrenceDeadline(date, frequency) ==
    CASE frequency = WEEKLY -> endOfWeek(date, 0)
      [] frequency = MONTHLY -> endOfMonth(date)
      [] OTHER -> date

startOfWeek(date, weekStartsOn) ==
    MkDate(LocalDay(date) - WeekDiff(getDay(date), weekStartsOn), 0)

-----------------------------------------------------------------------------
(* Bounds and input sets *)

MaxTicks == 1
MaxEdits == 1
WinDays == 2

\* the first day the calendar can be navigated to, and the day the app starts
WinLo == DaysFromCivil(2024, 12, 30)
Today0 == DaysFromCivil(2024, 12, 31)
NavDays == WinLo .. (WinLo + WinDays - 1)

\* hosts: <<UTC offset, local hour at which the app is started>>
Hosts == {<<2, 10>>, <<0 - 5, 22>>}

\* the instant the app is started on the host of this run
startHour == (CHOOSE h \in Hosts : h[1] = tz)[2]

sessionStart == Today0 * 24 + startHour - tz

\* what the user types and picks: a title, the frequencies picked in the
\* editor, the quadrants whose Add button is used and the quadrants cards are
\* dropped on
Titles == {"Draft"}
FormFrequencies == {NONE, DAILY, WEEKLY}
AddTargets == {"q1"}
DropTargets == {"q1", "q2", "q4"}
DateInputs == {<<2024, 12, 29>>}

-----------------------------------------------------------------------------
(* Records *)

noDate == <<>>
EmptyLedger == [k \in {} |-> TODO]

TaskKeys == <<"id", "title", "description", "status", "urgency", "importance",
              "frequency", "date", "createdAt", "updatedAt", "completedAt",
              "recurrenceEndedAt">>

\* String(value) of a field value
String(key, v) ==
    IF key \in {"id", "createdAt", "updatedAt", "completedAt", "recurrenceEndedAt"}
    THEN (IF v = undefined THEN "undefined" ELSE ToString(v))
    ELSE IF key = "date" THEN (IF v = noDate THEN "undefined" ELSE DateStr(v))
    ELSE v

isUndefined(key, v) ==
    IF key \in {"id", "createdAt", "updatedAt", "completedAt", "recurrenceEndedAt"}
    THEN v = undefined
    ELSE IF key = "date" THEN v = noDate
    ELSE v = undefinedStr

\* key.charAt(0).toUpperCase() + key.slice(1)
Capitalize(key) ==
    CASE key = "id" -> "Id"
      [] key = "title" -> "Title"
      [] key = "description" -> "Description"
      [] key = "status" -> "Status"
      [] key = "urgency" -> "Urgency"
      [] key = "importance" -> "Importance"
      [] key = "frequency" -> "Frequency"
      [] key = "date" -> "Date"
      [] key = "createdAt" -> "CreatedAt"
      [] key = "updatedAt" -> "UpdatedAt"
      [] key = "completedAt" -> "CompletedAt"
      [] key = "recurrenceEndedAt" -> "RecurrenceEndedAt"

\* the object literal of handleAddTaskToQuadrant / handleAddTaskGeneric
Template(urgency, importance, status) ==
    [id |-> undefined, title |-> undefinedStr, description |-> undefinedStr,
     status |-> status, urgency |-> urgency, importance |-> importance,
     frequency |-> NONE, date |-> noDate, createdAt |-> undefined,
     updatedAt |-> undefined, completedAt |-> undefined,
     recurrenceEndedAt |-> undefined, history |-> <<>>,
     completionHistory |-> EmptyLedger]

\* { ...ledger, [key]: status }
LedgerPut(ledger, key, status) ==
    [k \in DOMAIN ledger \cup {key} |-> IF k = key THEN status ELSE ledger[k]]

\* a merge in which an undefined value of the patch does not replace the
\* task's value: C3 does not hold of it
spreadDefined(t, patch) ==
    [k \in DOMAIN t \cup DOMAIN patch |->
        IF k \in DOMAIN patch
           /\ (k \in {"history", "completionHistory"} \/ ~isUndefined(k, patch[k]))
        THEN patch[k] ELSE t[k]]

\* { ...t, ...patch }: every own key of the patch wins, undefined included
spread(t, patch) ==
    [k \in DOMAIN t \cup DOMAIN patch |-> IF k \in DOMAIN patch THEN patch[k] ELSE t[k]]

SelectSeq2(s, Test(_, _)) ==
    LET F[i \in 0..Len(s)] ==
            IF i = 0 THEN <<>>
            ELSE IF Test(i, s[i]) THEN Append(F[i - 1], s[i]) ELSE F[i - 1]
    IN  F[Len(s)]

-----------------------------------------------------------------------------
(* src/App.tsx: the view filter *)

FirstOfMonth(c) == MkLocal(c[1], c[2], 1)

\* utils.ts lines 135-147, as inlined in App.tsx lines 100-113
startOfMonth(date) == FirstOfMonth(Civil(date))
startOfYear(date) == MkLocal(getFullYear(date), 1, 1)

\* lines 85-118
interval(mode, date) ==
    CASE mode = DAY -> [start |-> setHoursZero(date), end |-> endOfDay(date)]
      [] mode = WEEK -> [start |-> startOfWeek(date, 1), end |-> endOfWeek(date, 1)]
      [] mode = MONTH -> [start |-> startOfMonth(date), end |-> endOfMonth(date)]
      [] mode = YEAR -> [start |-> startOfYear(date), end |-> endOfYear(date)]

\* a ceiling that hides Weekly tasks from the year only: C10 does not hold of it
passesCeilingWeeklyInMonth(task, mode) ==
    /\ ~(task.frequency = DAILY /\ mode # DAY)
    /\ ~(task.frequency = WEEKLY /\ mode = YEAR)
    /\ ~(task.frequency = MONTHLY /\ mode = YEAR)

\* lines 121-135: the hierarchy filter
passesCeiling(task, mode) ==
    /\ ~(task.frequency = DAILY /\ mode # DAY)
    /\ ~(task.frequency = WEEKLY /\ mode \in {MONTH, YEAR})
    /\ ~(task.frequency = MONTHLY /\ mode = YEAR)

\* lines 139-143
withinInterval(taskDate, iv) == taskDate >= iv.start /\ taskDate <= iv.end

\* lines 154-155: days.some(day => isTaskActiveOnDate(task, day))
someActive(task, days) == \E k \in DOMAIN days : isTaskActiveOnDate(task, days[k])

\* lines 137-155: the interval test
inInterval(task, mode, iv) ==
    IF Falsy(task.frequency) \/ task.frequency = NONE
    THEN withinInterval(parseLocalTaskDate(task.date), iv)
    ELSE IF mode = YEAR
    THEN parseLocalTaskDate(task.date) <= iv.end
    ELSE someActive(task, eachDayOfInterval(iv.start, iv.end))

\* the predicate of tasks.filter (lines 120-156)
isFiltered(task, mode, date) ==
    passesCeiling(task, mode) /\ inInterval(task, mode, interval(mode, date))

\* lines 156-161 and 165-170: the status of the viewed date is injected
withStatus(task, date) == [task EXCEPT !.status = getTaskStatus(task, date)]

mapStatus(ts, date) == [k \in DOMAIN ts |-> withStatus(ts[k], date)]

filteredTasks ==
    mapStatus(SelectSeq2(tasks, LAMBDA i, t : isFiltered(t, viewMode, currentDate)),
              currentDate)

allTasksWithStatus == mapStatus(tasks, currentDate)

-----------------------------------------------------------------------------
(* src/App.tsx: handleSaveTask *)

\* lines 183-200: one entry per key of the patch whose defined value differs
RECURSIVE detectChanges(_, _, _, _)
detectChanges(t, taskData, timestamp, k) ==
    IF k > Len(TaskKeys) THEN <<>>
    ELSE IF ~isUndefined(TaskKeys[k], taskData[TaskKeys[k]])
            /\ taskData[TaskKeys[k]] # t[TaskKeys[k]]
    THEN <<[timestamp |-> timestamp,
            field |-> Capitalize(TaskKeys[k]),
            oldValue |-> String(TaskKeys[k], t[TaskKeys[k]]),
            newValue |-> String(TaskKeys[k], taskData[TaskKeys[k]]),
            user |-> "User"]>> \o detectChanges(t, taskData, timestamp, k + 1)
    ELSE detectChanges(t, taskData, timestamp, k + 1)

\* completedAt stamped at every save with status Done, whatever the status
\* was before: C8 does not hold of it
newCompletedAtRestamp(t, taskData, timestamp) ==
    IF taskData.frequency = NONE \/ (Falsy(taskData.frequency) /\ t.frequency = NONE)
    THEN IF taskData.status = DONE THEN timestamp
         ELSE IF ~Falsy(taskData.status) /\ taskData.status # DONE THEN undefined
         ELSE t.completedAt
    ELSE t.completedAt

\* lines 202-210
newCompletedAt(t, taskData, timestamp) ==
    IF taskData.frequency = NONE \/ (Falsy(taskData.frequency) /\ t.frequency = NONE)
    THEN IF taskData.status = DONE /\ t.status # DONE THEN timestamp
         ELSE IF ~Falsy(taskData.status) /\ taskData.status # DONE THEN undefined
         ELSE t.completedAt
    ELSE t.completedAt

\* an update that stores only the entries of this save: C7 does not hold of it
updateTaskFreshHistory(t, taskData, timestamp) ==
    [spread(t, taskData) EXCEPT
        !.updatedAt = timestamp,
        !.completedAt = newCompletedAt(t, taskData, timestamp),
        !.history = detectChanges(t, taskData, timestamp, 1)]

\* lines 212-218
updateTask(t, taskData, timestamp) ==
    [spread(t, taskData) EXCEPT
        !.updatedAt = timestamp,
        !.completedAt = newCompletedAt(t, taskData, timestamp),
        !.history = t.history \o detectChanges(t, taskData, timestamp, 1)]

\* taskData.x || fallback
orElse(v, fallback) == IF Falsy(v) THEN fallback ELSE v

\* lines 225-242
createTask(taskData, id, timestamp) ==
    [id |-> id,
     title |-> orElse(taskData.title, "Untitled Task"),
     description |-> orElse(taskData.description, ""),
     status |-> orElse(taskData.status, TODO),
     urgency |-> orElse(taskData.urgency, LOW),
     importance |-> orElse(taskData.importance, LOW),
     frequency |-> orElse(taskData.frequency, NONE),
     date |-> IF taskData.date = noDate THEN formatDate(currentDate) ELSE taskData.date,
     createdAt |-> timestamp,
     updatedAt |-> timestamp,
     completedAt |-> IF orElse(taskData.status, TODO) = DONE
                        /\ orElse(taskData.frequency, NONE) = NONE
                     THEN timestamp ELSE undefined,
     recurrenceEndedAt |-> undefined,
     history |-> <<>>,
     completionHistory |-> taskData.completionHistory]

\* lines 178-221: tasks.map over the edited task's id
updateTasks(id, taskData) ==
    [k \in DOMAIN tasks |->
        IF tasks[k].id = id THEN updateTask(tasks[k], taskData, now) ELSE tasks[k]]

\* lines 173-246: the collection after the save
handleSaveTask(taskData) ==
    IF editingTask # null /\ editingTask.id # undefined
    THEN updateTasks(editingTask.id, taskData)
    ELSE Append(tasks, createTask(taskData, nextId + 1, now))

-----------------------------------------------------------------------------
(* src/components/TaskModal.tsx and the handlers of App.tsx that open it *)

\* App.tsx line 447: contextDate={selectedContextDate || currentDate}
contextDate == IF selectedContextDate = nullDate THEN currentDate ELSE selectedContextDate

\* lines 39-50: the form is loaded from the task handed to the editor
loadForm(task, ctx) ==
    [task EXCEPT
        !.status = getTaskStatus(task, ctx),
        !.frequency = orElse(task.frequency, NONE)]

\* lines 164-165
isSeriesEnded(form) == form.recurrenceEndedAt # undefined /\ form.recurrenceEndedAt # 0
isRecurring(form) == ~Falsy(form.frequency) /\ form.frequency # NONE

navVars == <<currentDate, viewMode>>
modalVars == <<isModalOpen, editingTask, selectedContextDate, formData>>
importVars == <<isImportModalOpen, parsedIncomingTasks, selectedIds>>
envVars == <<tz, probe>>

Idle == ~isModalOpen /\ ~isImportModalOpen

\* App.tsx lines 253-259 with the effect of TaskModal lines 39-65: formData
\* is the form as the effect loads it; what the user then enters reaches the
\* collection only through a button of the editor and is an input of that
\* button's action
openModal(task, date) ==
    /\ editingTask' = task
    /\ selectedContextDate' = date
    /\ isModalOpen' = TRUE
    /\ formData' = loadForm(task, IF date = nullDate THEN currentDate ELSE date)
    /\ UNCHANGED <<now, tasks, nextId, navVars, importVars, envVars>>

\* onClose; the closed editor renders nothing and the next opening reloads
\* the form, so the closed editor's form and task are recorded as null
closeModal ==
    /\ isModalOpen' = FALSE
    /\ editingTask' = null
    /\ selectedContextDate' = nullDate
    /\ formData' = null

\* onTaskClick(task) of one of the cards shown: no date is passed
openCard(ts) == \E k \in DOMAIN ts : openModal(ts[k], nullDate)

\* a card of the matrix (MatrixGrid) is clicked
OpenFromMatrix == Idle /\ openCard(filteredTasks)

\* a row of the list view (TaskListView, all tasks) is clicked
OpenFromList == Idle /\ openCard(allTasksWithStatus)

\* CalendarView lines 31-51
calendarDays ==
    CASE viewMode = MONTH ->
            eachDayOfInterval(startOfWeek(startOfMonth(currentDate), 1),
                              endOfWeek(endOfMonth(currentDate), 1))
      [] viewMode = WEEK ->
            eachDayOfInterval(startOfWeek(currentDate, 1), endOfWeek(currentDate, 1))
      [] viewMode = DAY -> <<currentDate>>
      [] OTHER -> <<>>

\* CalendarView lines 53-64: the tasks of a day cell
getTasksForDate(ts, date) ==
    mapStatus(SelectSeq2(ts, LAMBDA i, t : isTaskActiveOnDate(t, date)), date)

\* CalendarView lines 146, 231: onTaskClick(task, day)
openDayTask(dayTasks, day) == \E k \in DOMAIN dayTasks : openModal(dayTasks[k], day)

\* the cells of the days the model navigates to
openCell(ts, days) ==
    \E c \in DOMAIN days :
        /\ LocalDay(days[c]) \in NavDays
        /\ openDayTask(getTasksForDate(ts, days[c]), days[c])

\* a task of a day cell of the calendar is clicked
OpenFromCalendar == Idle /\ viewMode # YEAR /\ openCell(filteredTasks, calendarDays)

\* CalendarView lines 84-99: the tasks listed under a month of the year grid
monthTasks(ts, y, month) ==
    mapStatus(SelectSeq2(ts, LAMBDA i, t :
                  IF t.frequency = NONE
                  THEN t.date[2] = month /\ t.date[1] = y
                  ELSE \/ isTaskActiveOnDate(t, MkLocal(y, month, 1))
                       \/ isTaskActiveOnDate(t, MkLocal(y, month, 28))),
              MkLocal(y, month, 1))

\* CalendarView lines 105-108: monthTasks.slice(0, 5) and
\* onTaskClick(t, monthDate)
openMonthTask(ts, monthDate) ==
    \E k \in DOMAIN ts : k <= 5 /\ openModal(ts[k], monthDate)

openMonth(ts, y) ==
    \E month \in 1..12 : openMonthTask(monthTasks(ts, y, month), MkLocal(y, month, 1))

\* one of the tasks of a month of the year grid is clicked
OpenFromYear == Idle /\ viewMode = YEAR /\ openMonth(filteredTasks, getFullYear(currentDate))

\* App.tsx lines 261-272
handleAddTaskToQuadrant(qid) ==
    /\ Idle
    /\ openModal(Template(QUADRANTS[qid].urgency, QUADRANTS[qid].importance, undefinedStr),
                 currentDate)

\* App.tsx lines 274-285
handleAddTaskGeneric ==
    /\ Idle
    /\ openModal(Template(LOW, LOW, TODO), currentDate)

\* lines 245, 351: onChange of the title and of the status
SetField(form, key, value) == [form EXCEPT ![key] = value]

\* lines 68-84
handleFrequencyChange(form, newFreq) ==
    LET baseDate == IF form.date # noDate THEN parseLocalTaskDate(form.date) ELSE now
        newDate == IF newFreq # NONE /\ newFreq # form.frequency
                   THEN formatDate(getRecurrenceDeadline(baseDate, newFreq))
                   ELSE form.date
    IN  [form EXCEPT !.frequency = newFreq, !.date = newDate]

\* line 338: the date input (for a recurring form, after the Edit button of
\* line 320)
SetDate(form, value) == [form EXCEPT !.date = value]

\* What the user enters before pressing a button of the editor: a value per
\* control, Untouched for a control left alone.  The controls fire in the
\* order title, status, frequency, date.
Untouched == "(untouched)"

Entries ==
    {e \in [title : Titles \cup {Untouched},
            status : TaskStatus \cup {Untouched},
            frequency : FormFrequencies \cup {Untouched},
            date : DateInputs \cup {noDate}] :
        Cardinality({k \in {"status", "frequency"} : e[k] # Untouched})
            + (IF e.date # noDate THEN 1 ELSE 0) <= MaxEdits}

NoEntry == [title |-> Untouched, status |-> Untouched, frequency |-> Untouched,
            date |-> noDate]

enterTitle(form, v) == IF v # Untouched THEN SetField(form, "title", v) ELSE form
enterStatus(form, v) == IF v # Untouched THEN SetField(form, "status", v) ELSE form
enterFrequency(form, v) == IF v # Untouched THEN handleFrequencyChange(form, v) ELSE form
enterDate(form, v) == IF v # noDate THEN SetDate(form, v) ELSE form

FillIn(form, e) ==
    enterDate(enterFrequency(enterStatus(enterTitle(form, e.title), e.status),
                             e.frequency), e.date)

\* the controls are disabled for an ended series (lines 251, 264, 284, 302, 351)
CanFillIn(form, e) == e \in Entries /\ (isSeriesEnded(form) => e = NoEntry)

\* Date.now() is later at every handler that stamps the collection: the clock
\* has moved on by an hour when the handler returns
tick ==
    /\ now - sessionStart < MaxTicks
    /\ now' = now + 1

saveVars == <<navVars, importVars, envVars>>

\* onSave(taskData) followed by onClose()
saveAndClose(taskData) ==
    /\ tasks' = handleSaveTask(taskData)
    /\ nextId' = IF editingTask.id = undefined THEN nextId + 1 ELSE nextId
    /\ closeModal
    /\ tick
    /\ UNCHANGED saveVars

\* lines 147-162: the data handed to onSave, ctx being the contextDate prop
submitData(form, ctx) ==
    IF form.frequency # NONE
    THEN [form EXCEPT !.completionHistory =
             LedgerPut(form.completionHistory,
                       getPeriodKey(ctx, form.frequency), form.status)]
    ELSE form

\* the submit button is disabled for an ended series (line 521) and the title
\* input is required (line 243)
submit(form) ==
    /\ ~isSeriesEnded(form)
    /\ ~Falsy(form.title)
    /\ saveAndClose(submitData(form, contextDate))

\* lines 147-162
handleSubmit(e) ==
    /\ isModalOpen
    /\ CanFillIn(formData, e)
    /\ submit(FillIn(formData, e))

\* lines 89-94, timestamp being Date.now()
endedForm(form, timestamp) ==
    [form EXCEPT !.recurrenceEndedAt = timestamp, !.status = DONE]

\* lines 96-102: the ledger entry of the context date
completeSeriesData(ended, ctx) ==
    IF ~Falsy(ended.frequency) /\ ended.frequency # NONE
    THEN [ended EXCEPT !.completionHistory =
             LedgerPut(ended.completionHistory, getPeriodKey(ctx, ended.frequency), DONE)]
    ELSE ended

\* the button is shown for a recurring form of an existing task whose series
\* has not ended (lines 361, 372-390)
completeSeries(form) ==
    /\ isRecurring(form)
    /\ editingTask.id # undefined
    /\ ~isSeriesEnded(form)
    /\ saveAndClose(completeSeriesData(endedForm(form, now), contextDate))

\* lines 86-106
handleCompleteSeries(e) ==
    /\ isModalOpen
    /\ CanFillIn(formData, e)
    /\ completeSeries(FillIn(formData, e))

\* lines 109-114
\* a resume that also starts a fresh ledger: C28 does not hold of it
resumeSeriesDataFreshLedger(form) ==
    [form EXCEPT !.recurrenceEndedAt = undefined, !.status = TODO,
                 !.completionHistory = EmptyLedger]

resumeSeriesData(form) == [form EXCEPT !.recurrenceEndedAt = undefined, !.status = TODO]

\* lines 108-118; the button is shown for an ended series (lines 361-371)
handleResumeSeries ==
    /\ isModalOpen
    /\ isRecurring(formData)
    /\ editingTask.id # undefined
    /\ isSeriesEnded(formData)
    /\ saveAndClose(resumeSeriesData(formData))

\* App.tsx lines 248-251
handleDeleteTask(id) == SelectSeq2(tasks, LAMBDA i, t : t.id # id)

\* TaskModal lines 120-124, the confirm dialog answered with OK
handleDelete ==
    /\ isModalOpen
    /\ editingTask.id # undefined
    /\ tasks' = handleDeleteTask(editingTask.id)
    /\ closeModal
    /\ UNCHANGED <<saveVars, now, nextId>>

\* line 187: the X button
CloseModal ==
    /\ isModalOpen
    /\ closeModal
    /\ UNCHANGED <<saveVars, now, tasks, nextId>>

-----------------------------------------------------------------------------
(* src/App.tsx: drag and drop, navigation *)

\* relocate without the test for an unchanged position: C16 does not hold
\* of it
relocateAlways(t, targetQuadrant, timestamp) ==
    [t EXCEPT
        !.urgency = targetQuadrant.urgency,
        !.importance = targetQuadrant.importance,
        !.history = Append(t.history,
            [timestamp |-> timestamp,
             field |-> "Matrix Position",
             oldValue |-> t.urgency \o " / " \o t.importance,
             newValue |-> targetQuadrant.urgency \o " / " \o targetQuadrant.importance,
             user |-> "User"]),
        !.updatedAt = timestamp]

\* lines 310-335: the task after it was dropped on a quadrant at Date.now()
relocate(t, targetQuadrant, timestamp) ==
    IF t.urgency = targetQuadrant.urgency /\ t.importance = targetQuadrant.importance
    THEN t
    ELSE [t EXCEPT
            !.urgency = targetQuadrant.urgency,
            !.importance = targetQuadrant.importance,
            !.history = Append(t.history,
                [timestamp |-> timestamp,
                 field |-> "Matrix Position",
                 oldValue |-> t.urgency \o " / " \o t.importance,
                 newValue |-> targetQuadrant.urgency \o " / " \o targetQuadrant.importance,
                 user |-> "User"]),
            !.updatedAt = timestamp]

\* lines 308-337: setTasks(prev => prev.map(...)) for the dragged card's id
dropTask(taskId, targetQuadrant) ==
    /\ tasks' = [j \in DOMAIN tasks |->
                    IF tasks[j].id = taskId
                    THEN relocate(tasks[j], targetQuadrant, now)
                    ELSE tasks[j]]
    /\ IF tasks' # tasks THEN tick ELSE now' = now
    /\ UNCHANGED <<nextId, navVars, modalVars, importVars, envVars>>

dropCard(ts, quadrantId) ==
    \E k \in DOMAIN ts : dropTask(ts[k].id, QUADRANTS[quadrantId])

\* lines 300-338: a card of the matrix is dropped on a quadrant
handleDragEnd(quadrantId) == Idle /\ dropCard(filteredTasks, quadrantId)

\* CalendarControl: handlePrev (n = -1) and handleNext (n = 1)
shifted(n) ==
    CASE viewMode = DAY -> addDays(currentDate, n)
      [] viewMode = WEEK -> addWeeks(currentDate, n)
      [] viewMode = MONTH -> addMonths(currentDate, n)
      [] viewMode = YEAR -> addYears(currentDate, n)

navFrame == <<now, tasks, nextId, modalVars, importVars, envVars>>

\* onDateChange(date), within the days the model navigates to
onDateChange(date) ==
    /\ LocalDay(date) \in NavDays
    /\ currentDate' = date
    /\ UNCHANGED <<navFrame, viewMode>>

handlePrev == Idle /\ onDateChange(shifted(0 - 1))

handleNext == Idle /\ onDateChange(shifted(1))

\* CalendarControl line 66: the Today button, pressed when another day is shown
GoToday ==
    /\ Idle
    /\ LocalDay(currentDate) # LocalDay(now)
    /\ onDateChange(now)

\* CalendarControl line 77
onViewModeChange(mode) ==
    /\ Idle
    /\ mode \in ViewMode
    /\ mode # viewMode
    /\ viewMode' = mode
    /\ UNCHANGED <<navFrame, currentDate>>

-----------------------------------------------------------------------------
(* App with import (src/unnamed/part_000) and ImportResolutionModal        *)
(* (src/unnamed/part_003)                                                  *)

\* src/lib/utils.ts lines 149-211.  A text is the sequence of its characters;
\* a run of characters other than the comma, the double quote and the line
\* feed is kept as one element of the sequence.
Comma == ","
Quote == "\""
LineFeed == "\n"

\* the characters of the strings the exported tasks carry
Chars(s) ==
    CASE s = "" -> <<>>
      [] s = "a,b" -> <<"a", Comma, "b">>
      [] s = "say \"hi\"" -> <<"say ", Quote, "hi", Quote>>
      [] s = "two\nlines" -> <<"two", LineFeed, "lines">>
      [] OTHER -> <<s>>

\* the string of a text
RECURSIVE Text(_)
Text(chars) == IF chars = <<>> THEN "" ELSE Head(chars) \o Text(Tail(chars))

\* stringValue.includes(c)
includes(chars, c) == \E i \in DOMAIN chars : chars[i] = c

\* stringValue.replace(/"/g, '""')
RECURSIVE doubleQuotes(_)
doubleQuotes(chars) ==
    IF chars = <<>> THEN <<>>
    ELSE (IF Head(chars) = Quote THEN <<Quote, Quote>> ELSE <<Head(chars)>>)
             \o doubleQuotes(Tail(chars))

\* lines 156-159
escapeValue(chars) ==
    IF includes(chars, Comma) \/ includes(chars, Quote) \/ includes(chars, LineFeed)
    THEN <<Quote>> \o doubleQuotes(chars) \o <<Quote>>
    ELSE chars

\* lines 153-155
exportValue(task, header) ==
    IF isUndefined(header, task[header]) THEN <<>>
    ELSE escapeValue(Chars(String(header, task[header])))

\* Array.prototype.join
RECURSIVE join(_, _)
join(texts, separator) ==
    IF texts = <<>> THEN <<>>
    ELSE IF Len(texts) = 1 THEN texts[1]
    ELSE texts[1] \o <<separator>> \o join(Tail(texts), separator)

\* line 150
CsvHeaders ==
    <<"id", "title", "description", "urgency", "importance", "status", "date",
      "frequency", "createdAt", "updatedAt", "completedAt", "recurrenceEndedAt">>

\* lines 151-161
exportRow(task) ==
    join([k \in DOMAIN CsvHeaders |-> exportValue(task, CsvHeaders[k])], Comma)

\* lines 149-163
exportToCSV(ts) ==
    join(<<join([k \in DOMAIN CsvHeaders |-> <<CsvHeaders[k]>>], Comma)>>
             \o [k \in DOMAIN ts |-> exportRow(ts[k])], LineFeed)

\* String.prototype.split on one character: the positions of the separator
\* and the pieces between them
breaks(chars, separator) == {i \in DOMAIN chars : chars[i] = separator}

\* the position of the j-th separator; 0 before the first, Len + 1 after the
\* last
breakAt(chars, marks, j) ==
    IF j = 0 THEN 0
    ELSE IF j > Cardinality(marks) THEN Len(chars) + 1
    ELSE CHOOSE i \in marks : Cardinality({x \in marks : x < i}) = j - 1

pieces(chars, marks) ==
    [j \in 1 .. (Cardinality(marks) + 1) |->
        SubSeq(chars, breakAt(chars, marks, j - 1) + 1, breakAt(chars, marks, j) - 1)]

split(chars, separator) == pieces(chars, breaks(chars, separator))

\* lines 172-190: the values of one line, from position i on
RECURSIVE scanLine(_, _, _, _)
scanLine(line, i, current, inQuotes) ==
    IF i > Len(line) THEN <<current>>
    ELSE IF line[i] = Quote
    THEN (IF inQuotes /\ i + 1 <= Len(line) /\ line[i + 1] = Quote
          THEN scanLine(line, i + 2, Append(current, Quote), inQuotes)
          ELSE scanLine(line, i + 1, current, ~inQuotes))
    ELSE IF line[i] = Comma /\ ~inQuotes
    THEN <<current>> \o scanLine(line, i + 1, <<>>, inQuotes)
    ELSE scanLine(line, i + 1, Append(current, line[i]), inQuotes)

\* Number(val) of the text of a timestamp; NaN is falsy like 0, the only way
\* the value is read (t.createdAt || Date.now())
Stamps == (WinLo * 24) .. ((WinLo + WinDays + 3) * 24)

Number(s) ==
    IF \E n \in Stamps : ToString(n) = s
    THEN CHOOSE n \in Stamps : ToString(n) = s
    ELSE 0

\* the date string of a text, in the representation of the task's date
CsvDates == {CivilFromDays(day) : day \in (WinLo - 2) .. (WinLo + WinDays + 3)}

DateOf(s) ==
    IF \E d \in CsvDates : DateStr(d) = s
    THEN CHOOSE d \in CsvDates : DateStr(d) = s
    ELSE noDate

\* the value a key has when the row assigns nothing to it
Unassigned(key) ==
    IF key \in {"id", "createdAt", "updatedAt", "completedAt", "recurrenceEndedAt"}
    THEN undefined
    ELSE IF key = "date" THEN noDate
    ELSE undefinedStr

\* lines 201-205: the value a column gives to its key
parsedValue(header, val) ==
    IF header \in {"createdAt", "updatedAt", "completedAt", "recurrenceEndedAt"}
    THEN (IF val = <<>> THEN undefined ELSE Number(Text(val)))
    ELSE IF header = "date" THEN DateOf(Text(val))
    ELSE Text(val)

\* lines 197-206: headers.forEach over the values of the line
columnOf(headers, key) ==
    IF \E i \in DOMAIN headers : Text(headers[i]) = key
    THEN CHOOSE i \in DOMAIN headers :
             /\ Text(headers[i]) = key
             /\ \A j \in DOMAIN headers : Text(headers[j]) = key => j <= i
    ELSE 0

parsedKey(key, column, values) ==
    IF column = 0 \/ column > Len(values) THEN Unassigned(key)
    ELSE parsedValue(key, values[column])

\* lines 192-195 and 204: history and completionHistory start as [] and {};
\* a column of that name assigns the string of its value, kept here as the
\* characters of the string
parsedInitial(column, values, initial) ==
    IF column = 0 \/ column > Len(values) THEN initial ELSE values[column]

\* lines 192-208: the task of one line
parsedTask(headers, values) ==
    [key \in {TaskKeys[k] : k \in DOMAIN TaskKeys} |->
        parsedKey(key, columnOf(headers, key), values)]
        @@ [history |-> parsedInitial(columnOf(headers, "history"), values, <<>>),
            completionHistory |->
                parsedInitial(columnOf(headers, "completionHistory"), values,
                              EmptyLedger)]

\* lines 171: lines.slice(1).filter(line => line.trim())
dataLines(lines) == SelectSeq(Tail(lines), LAMBDA line : line # <<>>)

parseLines(lines) ==
    [k \in DOMAIN dataLines(lines) |->
        parsedTask(split(lines[1], Comma),
                   scanLine(dataLines(lines)[k], 1, <<>>, FALSE))]

\* lines 165-211
parseCSV(csvText) ==
    IF Len(split(csvText, LineFeed)) < 2 THEN <<>>
    ELSE parseLines(split(csvText, LineFeed))

\* records parseCSV returns for rows written by exportToCSV
CsvRow(title, status, frequency, date) ==
    [id |-> 0, title |-> title, description |-> "", status |-> status,
     urgency |-> LOW, importance |-> HIGH, frequency |-> frequency, date |-> date,
     createdAt |-> Today0 * 24, updatedAt |-> Today0 * 24,
     completedAt |-> undefined, recurrenceEndedAt |-> undefined,
     history |-> <<>>, completionHistory |-> EmptyLedger]

ImportFiles ==
    {<<CsvRow("Final", DONE, WEEKLY, <<2024, 12, 30>>),
       CsvRow("Draft", TODO, NONE, <<2024, 12, 31>>)>>}

\* part_000 lines 392-414: a file was chosen and read; an empty result only
\* raises an alert
handleImportClick(parsed) ==
    /\ Idle
    /\ Len(parsed) > 0
    /\ parsedIncomingTasks' = parsed
    /\ isImportModalOpen' = TRUE
    /\ UNCHANGED <<now, tasks, nextId, navVars, modalVars, envVars, selectedIds>>

importFrame == <<now, tasks, nextId, navVars, modalVars, envVars,
                 isImportModalOpen, parsedIncomingTasks>>

\* part_003 lines 27-35
toggleTask(index) ==
    /\ isImportModalOpen
    /\ index \in 0..(Len(parsedIncomingTasks) - 1)
    /\ selectedIds' = IF index \in selectedIds
                      THEN selectedIds \ {index}
                      ELSE selectedIds \cup {index}
    /\ UNCHANGED importFrame

\* part_003 lines 37-43
toggleAll ==
    /\ isImportModalOpen
    /\ selectedIds' = IF Cardinality(selectedIds) = Len(parsedIncomingTasks)
                      THEN {}
                      ELSE 0..(Len(parsedIncomingTasks) - 1)
    /\ UNCHANGED importFrame

\* a review that hands over every candidate, selected or not: C19 does not
\* hold of it
getEveryTask == parsedIncomingTasks

\* part_003 lines 45-47
getSelectedTasks ==
    SelectSeq2(parsedIncomingTasks, LAMBDA i, t : (i - 1) \in selectedIds)

\* part_000 lines 417-424 and 430-437: ids and timestamps of the new tasks
tasksWithIds(selectedTasks) ==
    [k \in DOMAIN selectedTasks |->
        [selectedTasks[k] EXCEPT
            !.id = nextId + k,
            !.createdAt = IF selectedTasks[k].createdAt \in {undefined, 0}
                          THEN now ELSE selectedTasks[k].createdAt,
            !.updatedAt = now]]

\* part_000 lines 416-427; the button is disabled with nothing selected
handleMergeImport ==
    /\ isImportModalOpen
    /\ selectedIds # {}
    /\ tasks' = tasks \o tasksWithIds(getSelectedTasks)
    /\ nextId' = nextId + Len(getSelectedTasks)
    /\ isImportModalOpen' = FALSE
    /\ tick
    /\ UNCHANGED <<navVars, modalVars, envVars, parsedIncomingTasks, selectedIds>>

\* part_000 lines 429-440
handleReplaceImport ==
    /\ isImportModalOpen
    /\ selectedIds # {}
    /\ tasks' = tasksWithIds(getSelectedTasks)
    /\ nextId' = nextId + Len(getSelectedTasks)
    /\ isImportModalOpen' = FALSE
    /\ tick
    /\ UNCHANGED <<navVars, modalVars, envVars, parsedIncomingTasks, selectedIds>>

\* part_000 line 648: onClose of the review
CloseImport ==
    /\ isImportModalOpen
    /\ isImportModalOpen' = FALSE
    /\ UNCHANGED <<now, tasks, nextId, navVars, modalVars, envVars,
                   parsedIncomingTasks, selectedIds>>

\* part_000 lines 442-447; confirmed is the answer to the confirm dialog
handleReset(confirmed) ==
    /\ Idle
    /\ tasks # <<>>
    /\ tasks' = IF confirmed THEN <<>> ELSE tasks
    /\ UNCHANGED <<now, nextId, navVars, modalVars, importVars, envVars>>

-----------------------------------------------------------------------------
(* The application *)

\* App.tsx lines 55-75: the collection is loaded from localStorage when the
\* app is mounted.  What an earlier session, on the first day of the window,
\* left there: a task created with the Add Task button and given a frequency
\* and the date 2024-12-30 ...
StoredAt == WinLo * 24 + 9

StoredTask(id, frequency) ==
    [id |-> id, title |-> "Draft", description |-> "", status |-> TODO,
     urgency |-> LOW, importance |-> LOW, frequency |-> frequency,
     date |-> <<2024, 12, 30>>, createdAt |-> StoredAt, updatedAt |-> StoredAt,
     completedAt |-> undefined, recurrenceEndedAt |-> undefined, history |-> <<>>,
     completionHistory |->
         IF frequency = NONE THEN EmptyLedger
         ELSE LedgerPut(EmptyLedger, getPeriodKey(StoredAt, frequency), TODO)]

\* ... whose series was then ended with Complete Series an hour later ...
StoredEnded(t) ==
    updateTask(t, completeSeriesData(endedForm(loadForm(t, StoredAt), StoredAt + 1),
                                     StoredAt), StoredAt + 1)

\* ... or which was saved as Done an hour later
StoredDone(t) ==
    updateTask(t, submitData(SetField(loadForm(t, StoredAt), "status", DONE), StoredAt),
               StoredAt + 1)

StoredCollections ==
    {<<>>, <<StoredDone(StoredTask(1, NONE))>>,
     <<StoredTask(1, NONE), StoredTask(2, DAILY)>>}
        \cup {<<StoredTask(1, f)>> : f \in Frequency}
        \cup {<<StoredEnded(StoredTask(1, f))>> : f \in {DAILY, WEEKLY}}

Init ==
    /\ tz \in {h[1] : h \in Hosts}
    /\ now = sessionStart
    /\ tasks \in StoredCollections
    /\ nextId = Len(tasks)
    /\ currentDate = now
    /\ viewMode = WEEK
    /\ isModalOpen = FALSE
    /\ editingTask = null
    /\ selectedContextDate = nullDate
    /\ formData = null
    /\ isImportModalOpen = FALSE
    /\ parsedIncomingTasks = <<>>
    /\ selectedIds = {}
    /\ probe = null

Next ==
    \/ OpenFromMatrix
    \/ OpenFromList
    \/ OpenFromCalendar
    \/ OpenFromYear
    \/ \E q \in AddTargets : handleAddTaskToQuadrant(q)
    \/ handleAddTaskGeneric
    \/ \E e \in Entries : handleSubmit(e)
    \/ \E e \in Entries : handleCompleteSeries(e)
    \/ handleResumeSeries
    \/ handleDelete
    \/ CloseModal
    \/ \E q \in DropTargets : handleDragEnd(q)
    \/ handlePrev
    \/ handleNext
    \/ GoToday
    \/ \E m \in ViewMode : onViewModeChange(m)

Spec == Init /\ [][Next]_vars

\* The App of src/unnamed/part_000: the same handlers, with import and reset
InitImport ==
    /\ Init
    /\ tz = 2
    /\ tasks \in {<<>>, <<StoredTask(1, WEEKLY)>>, <<StoredEnded(StoredTask(1, WEEKLY))>>}

NextImport ==
    \/ Next
    \/ \E f \in ImportFiles : handleImportClick(f)
    \/ \E i \in 0..(Len(parsedIncomingTasks) - 1) : toggleTask(i)
    \/ toggleAll
    \/ handleMergeImport
    \/ handleReplaceImport
    \/ CloseImport
    \/ \E confirmed \in BOOLEAN : handleReset(confirmed)

SpecImport == InitImport /\ [][NextImport]_vars

\* The period-key function of utils.ts on its own: two dates and a recurring
\* frequency are drawn, and getPeriodKey is applied to both dates
KeyDays ==
    {DaysFromCivil(2023, 12, 31), DaysFromCivil(2024, 1, 1), DaysFromCivil(2024, 1, 2),
     DaysFromCivil(2024, 1, 7), DaysFromCivil(2024, 1, 8), DaysFromCivil(2024, 1, 10),
     DaysFromCivil(2024, 12, 1)}
        \cup (DaysFromCivil(2024, 12, 28) .. DaysFromCivil(2025, 1, 6))

KeyDates == {MkDate(day, hour) : day \in KeyDays, hour \in {0, 23}}

InitKey ==
    /\ tz \in {h[1] : h \in Hosts}
    /\ now = sessionStart
    /\ tasks = <<>>
    /\ nextId = 0
    /\ currentDate = now
    /\ viewMode = WEEK
    /\ isModalOpen = FALSE
    /\ editingTask = null
    /\ selectedContextDate = nullDate
    /\ formData = null
    /\ isImportModalOpen = FALSE
    /\ parsedIncomingTasks = <<>>
    /\ selectedIds = {}
    /\ probe \in [d1 : KeyDates, d2 : KeyDates, frequency : Recurring, keys : {<<>>}]

\* getPeriodKey(d1, frequency) and getPeriodKey(d2, frequency) are computed
ApplyPeriodKey ==
    /\ probe.keys = <<>>
    /\ probe' = [probe EXCEPT !.keys = <<getPeriodKey(probe.d1, probe.frequency),
                                        getPeriodKey(probe.d2, probe.frequency)>>]
    /\ UNCHANGED <<tz, now, tasks, nextId, navVars, modalVars, importVars>>

NextKey == ApplyPeriodKey

SpecKey == InitKey /\ [][NextKey]_vars

-----------------------------------------------------------------------------
(* Properties of the series: ending, resuming, occurrences *)

ProbeSpan == 8

\* the task of a collection that carries an id
taskOf(ts, id) == ts[CHOOSE k \in DOMAIN ts : ts[k].id = id]

\* dates checked around an instant: both ends of every local day from two
\* days before it to ProbeSpan days after it, and of the days a month and a
\* year after it
ProbeDays(day) == ((day - 2) .. (day + ProbeSpan)) \cup {day + 31, day + 366}

ProbesAround(date) ==
    {MkDate(day, hour) : day \in ProbeDays(LocalDay(date)), hour \in {0, 23}}

\* the series of a task is ENDED
Ended(task) == task.recurrenceEndedAt # undefined

\* the step is Complete Series pressed in the editor
EndSeriesStep == \E e \in Entries : handleCompleteSeries(e)

\* the step is Save pressed in the editor of an existing task
SaveStep == editingTask # null /\ editingTask.id # undefined /\ \E e \in Entries : handleSubmit(e)

\* C1: after Complete Series pressed on a recurring task, nothing else being
\* entered, while the editor's contextual date is D, the task is not active on the day after D and its ledger holds DONE under
\* the period key of D, whatever the relation between D and now.
EndedAtContext(t, D) ==
    /\ ~isTaskActiveOnDate(t, addDays(D, 1))
    /\ getPeriodKey(D, t.frequency) \in DOMAIN t.completionHistory
    /\ t.completionHistory[getPeriodKey(D, t.frequency)] = DONE

C1_EndSeriesClosesAfterContextDate ==
    [][handleCompleteSeries(NoEntry) => EndedAtContext(taskOf(tasks', editingTask.id), contextDate)]_vars

\* C2: in every reachable state a task whose recurrenceEndedAt is set is
\* active on no date whose local day is strictly after the local day of
\* recurrenceEndedAt.
DatesAfter(endedAt) ==
    {d \in ProbesAround(endedAt) : LocalDay(d) > LocalDay(endedAt)}

C2_NoOccurrenceAfterEnd ==
    \A k \in DOMAIN tasks :
        Ended(tasks[k]) =>
            \A d \in DatesAfter(tasks[k].recurrenceEndedAt) :
                ~isTaskActiveOnDate(tasks[k], d)

\* a series ended in this session whose cadence alone would still produce an
\* occurrence on a later day
C2_Witness ==
    \E k \in DOMAIN tasks :
        /\ Ended(tasks[k])
        /\ tasks[k].recurrenceEndedAt >= sessionStart
        /\ \E d \in DatesAfter(tasks[k].recurrenceEndedAt) : CadenceActive(tasks[k], d)

\* C3: after Resume Series on an ended series, recurrenceEndedAt is unset
\* and on every date the task is active exactly when the cadence rule alone,
\* applied to the task as it was before, says so; dates after the former end
\* included.
Resumed(old, new) ==
    /\ new.recurrenceEndedAt = undefined
    /\ \A d \in ProbesAround(old.recurrenceEndedAt) :
          isTaskActiveOnDate(new, d) = CadenceActive(old, d)

C3_ResumeRestoresCadence ==
    [][handleResumeSeries =>
          Resumed(taskOf(tasks, editingTask.id), taskOf(tasks', editingTask.id))]_vars

\* a series ended in an earlier session (its history records the end) and
\* resumed in this one, active again on a day after the former end
C3_Witness ==
    \E k \in DOMAIN tasks :
        /\ tasks[k].recurrenceEndedAt = undefined
        /\ tasks[k].updatedAt >= sessionStart
        /\ \E i \in DOMAIN tasks[k].history :
              /\ tasks[k].history[i].field = "RecurrenceEndedAt"
              /\ isTaskActiveOnDate(tasks[k], addDays(tasks[k].history[i].timestamp, 7))

\* C4: while a series is ENDED, every step other than Resume Series leaves
\* the task, if it still exists, with the same fields, history and ledger.
C4_EndedSeriesIsFrozen ==
    [][~handleResumeSeries =>
          \A k \in DOMAIN tasks : \A j \in DOMAIN tasks' :
              (Ended(tasks[k]) /\ tasks'[j].id = tasks[k].id) => tasks'[j] = tasks[k]]_vars

\* C5: recording a status for the occurrence at the contextual date D (Save,
\* or Complete Series, on a task that stays on its cadence) leaves the status
\* of every date of another period of that cadence as it was.
MondayOf(date) == LocalDay(date) - WeekDiff(getDay(date), 1)

SamePeriod(d1, d2, frequency) ==
    CASE frequency = DAILY -> LocalDay(d1) = LocalDay(d2)
      [] frequency = WEEKLY -> MondayOf(d1) = MondayOf(d2)
      [] frequency = MONTHLY -> getFullYear(d1) = getFullYear(d2) /\ getMonth(d1) = getMonth(d2)
      [] frequency = YEARLY -> getFullYear(d1) = getFullYear(d2)

OtherPeriodsKept(old, new, D) ==
    (old.frequency \in Recurring /\ new.frequency = old.frequency) =>
        \A d \in ProbesAround(D) :
            ~SamePeriod(d, D, old.frequency) => getTaskStatus(new, d) = getTaskStatus(old, d)

C5_OccurrencesIndependent ==
    [][(SaveStep \/ EndSeriesStep) =>
          OtherPeriodsKept(taskOf(tasks, editingTask.id), taskOf(tasks', editingTask.id),
                           contextDate)]_vars

\* C6: for every recurring frequency and every two dates, the period keys of
\* the two dates are equal exactly when the dates lie in the same period of
\* the cadence (same day, same Monday-to-Sunday week, same month, same year).
C6_KeysDenoteOnePeriod ==
    probe.keys # <<>> =>
        ((probe.keys[1] = probe.keys[2])
            <=> SamePeriod(probe.d1, probe.d2, probe.frequency))

-----------------------------------------------------------------------------
(* Properties of the stored task: history, completion, ledger; the filter *)

IsPrefix(s, t) == Len(s) <= Len(t) /\ SubSeq(t, 1, Len(s)) = s

\* C7: across every step (save, drag, Complete Series, Resume Series, merge
\* import of other tasks, ...) the history of a task that exists before and
\* after the step is a prefix of its history after the step.
C7_HistoryAppendOnly ==
    [][\A k \in DOMAIN tasks : \A j \in DOMAIN tasks' :
          tasks'[j].id = tasks[k].id => IsPrefix(tasks[k].history, tasks'[j].history)]_vars

\* a task whose history, begun in an earlier session, has grown in this one
C7_Witness ==
    \E k \in DOMAIN tasks :
          /\ Len(tasks[k].history) >= 2
          /\ tasks[k].history[1].timestamp < sessionStart
          /\ tasks[k].history[Len(tasks[k].history)].timestamp >= sessionStart

\* C8: a save of a task whose frequency is None before and after it: a
\* change from a status other than Done to Done sets completedAt to the
\* timestamp of the save, a change from Done to another status clears
\* completedAt, and a save that leaves the status Done keeps completedAt.
CompletionStamped(old, new, timestamp) ==
    (old.frequency = NONE /\ new.frequency = NONE) =>
        /\ (old.status # DONE /\ new.status = DONE) => new.completedAt = timestamp
        /\ (old.status = DONE /\ new.status # DONE) => new.completedAt = undefined
        /\ (old.status = DONE /\ new.status = DONE) => new.completedAt = old.completedAt

C8_CompletedAtFollowsStatus ==
    [][SaveStep =>
          CompletionStamped(taskOf(tasks, editingTask.id), taskOf(tasks', editingTask.id),
                            now)]_vars

\* a one-off task completed in an earlier session and saved again in this
\* one, still Done and still carrying the earlier completion time
C8_Witness ==
    \E k \in DOMAIN tasks :
        /\ tasks[k].frequency = NONE
        /\ tasks[k].status = DONE
        /\ tasks[k].updatedAt >= sessionStart
        /\ tasks[k].completedAt # undefined
        /\ tasks[k].completedAt < sessionStart

\* C9: in every reachable state the completion ledger of a task whose
\* frequency is None is empty.
C9_OneOffLedgerEmpty ==
    \A k \in DOMAIN tasks :
        tasks[k].frequency = NONE => DOMAIN tasks[k].completionHistory = {}

\* C10: a Daily task is in the filtered result only under Day, a Weekly task
\* only under Day or Week, a Monthly task only under Day, Week or Month; a
\* Yearly or one-off task is in the filtered result whenever it passes the
\* interval test, under every granularity.
InFiltered(task) == \E k \in DOMAIN filteredTasks : filteredTasks[k].id = task.id

C10_FrequencyCeiling ==
    \A k \in DOMAIN tasks :
        /\ (tasks[k].frequency = DAILY /\ InFiltered(tasks[k])) => viewMode = DAY
        /\ (tasks[k].frequency = WEEKLY /\ InFiltered(tasks[k])) => viewMode \in {DAY, WEEK}
        /\ (tasks[k].frequency = MONTHLY /\ InFiltered(tasks[k]))
               => viewMode \in {DAY, WEEK, MONTH}
        /\ tasks[k].frequency \in {YEARLY, NONE}
               => (InFiltered(tasks[k])
                      <=> inInterval(tasks[k], viewMode, interval(viewMode, currentDate)))

\* the year is shown and a Daily task that passes the interval test is held
\* back
C10_Witness ==
    \E k \in DOMAIN tasks :
        /\ tasks[k].frequency = DAILY
        /\ viewMode = YEAR
        /\ inInterval(tasks[k], viewMode, interval(viewMode, currentDate))
        /\ ~InFiltered(tasks[k])

-----------------------------------------------------------------------------
(* The occurrence model of utils.ts and the view filter of App.tsx on      *)
(* their own: a task, a granularity and a viewed date are drawn; the       *)
(* filter, and isTaskActiveOnDate over a range of dates, are applied       *)

OccurAnchors == {<<2024, 1, 31>>, <<2024, 2, 29>>, <<2024, 12, 30>>, <<2025, 1, 1>>}

\* the form of the Add Task button filled in with a title, a frequency and a
\* date
OccurForm(frequency, anchor) ==
    [Template(LOW, LOW, TODO) EXCEPT
        !.title = "Draft", !.frequency = frequency, !.date = anchor]

\* the task created by Save at instant at ...
OccurCreated(form, at) == createTask(submitData(form, at), 1, at)

\* ... and the same task after Complete Series at instant at
OccurEndedAt(t, at) ==
    updateTask(t, completeSeriesData(endedForm(loadForm(t, at), at), at), at)

\* tasks created at 09:00 of their anchor day
OccurOpen(frequencies) ==
    UNION {{OccurCreated(OccurForm(f, a), at) :
               at \in {MkDate(DaysFromCivil(a[1], a[2], a[3]), 9)}} :
           f \in frequencies, a \in OccurAnchors}

\* series ended an hour, or 40 days and an hour, after they were created
OccurEnded ==
    UNION {{OccurEndedAt(t, at) : at \in {addDays(t.createdAt, days) + 1}} :
           t \in OccurOpen(Recurring), days \in {0, 40}}

OccurTasks == OccurOpen(Frequency) \cup OccurEnded

OccurViewDays ==
    {DaysFromCivil(2024, 2, 29), DaysFromCivil(2024, 12, 31), DaysFromCivil(2025, 2, 28),
     DaysFromCivil(2025, 4, 30), DaysFromCivil(2025, 12, 30), DaysFromCivil(2026, 1, 1)}

\* the dates isTaskActiveOnDate is applied to: both ends of every day from
\* two days before the anchor to 95 days after it, and of the days around
\* the anniversaries of the anchor
OccurOffsets == ((0 - 2) .. 95) \cup (364 .. 367) \cup (729 .. 732) \cup (1460 .. 1462)

OccurDates(task) ==
    {addDays(parseLocalTaskDate(task.date), n) + hour : n \in OccurOffsets, hour \in {0, 23}}

InitOccur ==
    /\ tz \in {h[1] : h \in Hosts}
    /\ now = sessionStart
    /\ tasks \in {<<t>> : t \in OccurTasks}
    /\ nextId = 1
    /\ currentDate \in {MkDate(day, 10) : day \in OccurViewDays}
    /\ viewMode \in ViewMode
    /\ isModalOpen = FALSE
    /\ editingTask = null
    /\ selectedContextDate = nullDate
    /\ formData = null
    /\ isImportModalOpen = FALSE
    /\ parsedIncomingTasks = <<>>
    /\ selectedIds = {}
    /\ probe = null

occurFrame == <<tz, now, tasks, nextId, navVars, modalVars, importVars>>

\* filteredTasks is computed for the task, the granularity and the viewed date
ApplyFilter ==
    /\ probe = null
    /\ probe' = [op |-> "filter", shown |-> {filteredTasks[k].id : k \in DOMAIN filteredTasks}]
    /\ UNCHANGED occurFrame

\* isTaskActiveOnDate is computed for the task on every date of OccurDates
ApplyActive ==
    /\ probe = null
    /\ probe' = [op |-> "active",
                 active |-> [d \in OccurDates(tasks[1]) |-> isTaskActiveOnDate(tasks[1], d)]]
    /\ UNCHANGED occurFrame

NextOccur == ApplyFilter \/ ApplyActive

SpecOccur == InitOccur /\ [][NextOccur]_vars

-----------------------------------------------------------------------------
(* Properties of the view filter, the cadence and the status of a date *)

\* every local day of the visible interval, at local midnight
VisibleDays(mode, date) ==
    {MkDate(day, 0) : day \in LocalDay(interval(mode, date).start) ..
                              LocalDay(interval(mode, date).end)}

HasVisibleOccurrence(task) ==
    \E d \in VisibleDays(viewMode, currentDate) : isTaskActiveOnDate(task, d)

\* C11: a recurring task that passes the frequency ceiling is in the result
\* of the view filter exactly when isTaskActiveOnDate holds on at least one
\* date of the visible interval, at every granularity (Year included), for
\* a Yearly task anchored on February 29 and for ended series.
C11_FilterMatchesOccurrences ==
    (probe # null /\ probe.op = "filter") =>
        \A k \in DOMAIN tasks :
            (tasks[k].frequency \in Recurring /\ passesCeiling(tasks[k], viewMode))
                => (tasks[k].id \in probe.shown <=> HasVisibleOccurrence(tasks[k]))

\* the local day of the anchor date of a task
AnchorDay(task) == DaysFromCivil(task.date[1], task.date[2], task.date[3])

\* the cadence rule, by local calendar days
CadenceRule(task, day) ==
    /\ day >= AnchorDay(task)
    /\ CASE task.frequency = NONE -> day = AnchorDay(task)
         [] task.frequency = DAILY -> TRUE
         [] task.frequency = WEEKLY -> (day - AnchorDay(task)) % 7 = 0
         [] task.frequency = YEARLY ->
                /\ CivilFromDays(day)[2] = task.date[2]
                /\ CivilFromDays(day)[3] = task.date[3]

ActiveTable == probe # null /\ probe.op = "active"

\* C12: while recurrenceEndedAt is unset, a task is active on date d exactly
\* when d is not before the anchor date and: None - d is the anchor date
\* (so never on the day after it); Daily - always; Weekly - d has the
\* anchor's weekday; Yearly - d has the anchor's month and day of month.
C12_CadenceRule ==
    ActiveTable =>
        \A k \in DOMAIN tasks :
            (tasks[k].recurrenceEndedAt = undefined /\ tasks[k].frequency # MONTHLY)
                => \A d \in DOMAIN probe.active :
                       probe.active[d] = CadenceRule(tasks[k], LocalDay(d))

\* a Weekly task found active a week after its anchor and an open one-off
\* task found inactive the day after its anchor
C12_Witness ==
    /\ ActiveTable
    /\ tasks[1].recurrenceEndedAt = undefined
    /\ \/ /\ tasks[1].frequency = WEEKLY
          /\ probe.active[MkDate(AnchorDay(tasks[1]) + 7, 23)]
          /\ ~probe.active[MkDate(AnchorDay(tasks[1]) + 6, 0)]
       \/ /\ tasks[1].frequency = NONE
          /\ probe.active[MkDate(AnchorDay(tasks[1]), 23)]
          /\ ~probe.active[MkDate(AnchorDay(tasks[1]) + 1, 0)]


\* C13: a Monthly task (series not ended) is active on d exactly when d is
\* not before the anchor and the day of month of d equals the anchor's: no
\* clamping, so an anchor on day 31 has no occurrence in a month of 30 days
\* or in February.
C13_MonthlyNoClamping ==
    ActiveTable =>
        \A k \in DOMAIN tasks :
            (tasks[k].recurrenceEndedAt = undefined /\ tasks[k].frequency = MONTHLY)
                => \A d \in DOMAIN probe.active :
                       probe.active[d] =
                           (/\ LocalDay(d) >= AnchorDay(tasks[k])
                            /\ CivilFromDays(LocalDay(d))[3] = tasks[k].date[3])

\* a Monthly task anchored on January 31: active on March 31, on no day of
\* February and on no day of April
C13_Witness ==
    /\ ActiveTable
    /\ tasks[1].frequency = MONTHLY
    /\ tasks[1].recurrenceEndedAt = undefined
    /\ tasks[1].date = <<2024, 1, 31>>
    /\ probe.active[MkDate(DaysFromCivil(2024, 3, 31), 0)]
    /\ \A d \in DOMAIN probe.active :
           CivilFromDays(LocalDay(d))[1] = 2024 /\ CivilFromDays(LocalDay(d))[2] \in {2, 4}
               => ~probe.active[d]
    /\ MkDate(DaysFromCivil(2024, 2, 29), 23) \in DOMAIN probe.active
    /\ MkDate(DaysFromCivil(2024, 4, 30), 23) \in DOMAIN probe.active


\* the status the ledger of a recurring task holds for a date: the entry
\* of the period's key when the key is present, To Do when it is absent
LedgerEntry(task, date) ==
    IF getPeriodKey(date, task.frequency) \in DOMAIN task.completionHistory
    THEN task.completionHistory[getPeriodKey(date, task.frequency)]
    ELSE TODO

StatusOnRule(task, date) ==
    /\ task.frequency = NONE => getTaskStatus(task, date) = task.status
    /\ task.frequency \in Recurring => getTaskStatus(task, date) = LedgerEntry(task, date)

\* the task the editor has saved, in the collection after the step
SavedTask(ts) ==
    IF editingTask.id = undefined THEN ts[Len(ts)] ELSE taskOf(ts, editingTask.id)

\* Save pressed with a recurring frequency in the form
RecurringSave(e) == handleSubmit(e) /\ FillIn(formData, e).frequency # NONE

\* C14: getTaskStatus returns task.status for a one-off task whatever the
\* date, and for a recurring task the ledger entry under the period key of
\* the date when the key is present and To Do when it is absent; after a
\* save of a recurring task with status S at contextual date D the status
\* on D is S.
C14_StatusOn ==
    [][/\ \A k \in DOMAIN tasks' : \A d \in ProbesAround(now) :
              StatusOnRule(tasks'[k], d)
       /\ \A e \in Entries :
              RecurringSave(e) =>
                  getTaskStatus(SavedTask(tasks'), contextDate)
                      = FillIn(formData, e).status]_vars


-----------------------------------------------------------------------------
(* The editor on tasks that were stored under another title, among them    *)
(* tasks saved as Done in an earlier session                               *)

StoredAs(title, t) == [t EXCEPT !.title = title]

EditCollections ==
    {<<StoredAs("Plan", StoredTask(1, f))>> : f \in FormFrequencies}
        \cup {<<StoredDone(StoredAs("Plan", StoredTask(1, f)))>> : f \in FormFrequencies}
        \cup {<<StoredEnded(StoredAs("Plan", StoredTask(1, DAILY)))>>}

InitEdit ==
    /\ tz \in {h[1] : h \in Hosts}
    /\ now = sessionStart
    /\ tasks \in EditCollections
    /\ nextId = Len(tasks)
    /\ currentDate = now
    /\ viewMode = WEEK
    /\ isModalOpen = FALSE
    /\ editingTask = null
    /\ selectedContextDate = nullDate
    /\ formData = null
    /\ isImportModalOpen = FALSE
    /\ parsedIncomingTasks = <<>>
    /\ selectedIds = {}
    /\ probe = null

SpecEdit == InitEdit /\ [][Next]_vars

-----------------------------------------------------------------------------
(* Export followed by import: the collection is written by exportToCSV,    *)
(* read back by parseCSV, reviewed and merged                              *)

CsvTitles == {"Draft", "a,b", "say \"hi\"", "two\nlines"}
CsvDescriptions == {"", "a,b", "two\nlines"}

CsvTask(t, title, description) ==
    [t EXCEPT !.title = title, !.description = description]

CsvCollections ==
    {<<CsvTask(StoredDone(StoredTask(1, NONE)), title, description)>> :
        title \in CsvTitles, description \in CsvDescriptions}
    \cup {<<CsvTask(StoredTask(1, WEEKLY), title, description),
            StoredTask(2, NONE)>> :
        title \in CsvTitles, description \in CsvDescriptions}

InitCsv ==
    /\ tz = 2
    /\ now = sessionStart
    /\ tasks \in CsvCollections
    /\ nextId = Len(tasks)
    /\ currentDate = now
    /\ viewMode = WEEK
    /\ isModalOpen = FALSE
    /\ editingTask = null
    /\ selectedContextDate = nullDate
    /\ formData = null
    /\ isImportModalOpen = FALSE
    /\ parsedIncomingTasks = <<>>
    /\ selectedIds = {}
    /\ probe = null

\* the file chosen for import is the file the export has just written
ImportExported == handleImportClick(parseCSV(exportToCSV(tasks)))

NextCsv ==
    \/ ImportExported
    \/ toggleAll
    \/ handleMergeImport
    \/ CloseImport

SpecCsv == InitCsv /\ [][NextCsv]_vars

-----------------------------------------------------------------------------
(* Import of a file of any text: a header line and up to MaxRows lines      *)

MaxRows == 2

CsvHeaderLines ==
    {join([k \in DOMAIN CsvHeaders |-> <<CsvHeaders[k]>>], Comma),
     <<"title", Comma, "history">>,
     <<"title", Comma, "completionHistory", Comma, "status">>}

CsvLines ==
    {<<>>,
     <<"garbage">>,
     <<"Draft", Comma, "x">>,
     <<Comma, "Low">>,
     <<Quote, "a", Comma, "b", Quote, Comma, "y", Comma, "Done">>}

CsvRowLists == UNION {[1 .. n -> CsvLines] : n \in 0 .. MaxRows}

CsvFiles ==
    {join(<<header>> \o rows, LineFeed) : header \in CsvHeaderLines, rows \in CsvRowLists}

InitParse ==
    /\ tz = 2
    /\ now = sessionStart
    /\ tasks \in {<<>>, <<StoredTask(1, NONE)>>}
    /\ nextId = Len(tasks)
    /\ currentDate = now
    /\ viewMode = WEEK
    /\ isModalOpen = FALSE
    /\ editingTask = null
    /\ selectedContextDate = nullDate
    /\ formData = null
    /\ isImportModalOpen = FALSE
    /\ parsedIncomingTasks = <<>>
    /\ selectedIds = {}
    /\ probe \in {[op |-> "file", text |-> text] : text \in CsvFiles}

\* the file chosen for import holds the text
ImportFile == handleImportClick(parseCSV(probe.text))

NextParse ==
    \/ ImportFile
    \/ CloseImport

SpecParse == InitParse /\ [][NextParse]_vars

-----------------------------------------------------------------------------
(* The frequency control of the editor on its own: a form with an anchor    *)
(* date is drawn and handleFrequencyChange is applied to it                 *)

AnchorDays ==
    (DaysFromCivil(2024, 12, 23) .. DaysFromCivil(2025, 1, 5))
        \cup {DaysFromCivil(2024, 1, 31), DaysFromCivil(2024, 2, 10)}

AnchorForms ==
    {OccurForm(frequency, CivilFromDays(day)) :
        frequency \in Frequency, day \in AnchorDays}
    \cup {OccurForm(NONE, noDate)}

InitAnchor ==
    /\ tz \in {h[1] : h \in Hosts}
    /\ now = sessionStart
    /\ tasks = <<>>
    /\ nextId = 0
    /\ currentDate = now
    /\ viewMode = WEEK
    /\ isModalOpen = FALSE
    /\ editingTask = null
    /\ selectedContextDate = nullDate
    /\ formData = null
    /\ isImportModalOpen = FALSE
    /\ parsedIncomingTasks = <<>>
    /\ selectedIds = {}
    /\ probe \in {[op |-> "form", form |-> form] : form \in AnchorForms}

\* the frequency select of the form is set to newFreq
ApplyFrequencyChange(newFreq) ==
    /\ probe.op = "form"
    /\ probe' = [op |-> "changed", form |-> probe.form, newFreq |-> newFreq,
                 changed |-> handleFrequencyChange(probe.form, newFreq)]
    /\ UNCHANGED <<tz, now, tasks, nextId, navVars, modalVars, importVars>>

NextAnchor == \E newFreq \in Frequency : ApplyFrequencyChange(newFreq)

SpecAnchor == InitAnchor /\ [][NextAnchor]_vars

-----------------------------------------------------------------------------
(* Properties of the handlers: save, drag, import *)

\* the user has typed a new title and touched no other control
TitleOnly(e) ==
    /\ e.title # Untouched
    /\ e.status = Untouched
    /\ e.frequency = Untouched
    /\ e.date = noDate

\* Save of the existing task after its title alone was changed
RenameStep(e) ==
    /\ editingTask # null
    /\ editingTask.id # undefined
    /\ TitleOnly(e)
    /\ e.title # taskOf(tasks, editingTask.id).title
    /\ handleSubmit(e)

\* the history has grown by exactly one entry, which records the new title
OneTitleEntry(old, new) ==
    /\ Len(new.history) = Len(old.history) + 1
    /\ IsPrefix(old.history, new.history)
    /\ new.history[Len(new.history)].field = "Title"
    /\ new.history[Len(new.history)].oldValue = old.title
    /\ new.history[Len(new.history)].newValue = new.title

\* C15: saving an existing task after only its title was changed from A to
\* B appends exactly one history entry, with field "Title", oldValue A and
\* newValue B, and none for a field the user did not change; for one-off
\* and recurring tasks, whatever date the editor was opened for.
C15_TitleEditOneEntry ==
    [][\A e \in Entries :
           RenameStep(e) =>
               /\ taskOf(tasks', editingTask.id).title = e.title
               /\ OneTitleEntry(taskOf(tasks, editingTask.id),
                                taskOf(tasks', editingTask.id))]_vars


\* the task lies in the quadrant
InQuadrant(t, q) == t.urgency = q.urgency /\ t.importance = q.importance

\* the last history entry records the move from the old position to q
PositionEntry(old, new, q) ==
    /\ new.history[Len(new.history)].field = "Matrix Position"
    /\ new.history[Len(new.history)].oldValue = old.urgency \o " / " \o old.importance
    /\ new.history[Len(new.history)].newValue = q.urgency \o " / " \o q.importance

\* the task was moved to q at the instant at: both fields replaced, one
\* history entry appended, updatedAt refreshed, nothing else changed
Moved(old, new, q, at) ==
    /\ InQuadrant(new, q)
    /\ Len(new.history) = Len(old.history) + 1
    /\ IsPrefix(old.history, new.history)
    /\ PositionEntry(old, new, q)
    /\ new.updatedAt = at
    /\ new.updatedAt > old.updatedAt
    /\ [new EXCEPT !.urgency = old.urgency, !.importance = old.importance,
                   !.history = old.history, !.updatedAt = old.updatedAt] = old

\* the card with the id was dropped on quadrant q in this step
DropStep(id, q) == Idle /\ dropTask(id, QUADRANTS[q])

\* C16: a task dropped on a quadrant whose urgency and importance both
\* equal its own is unchanged (no history entry, updatedAt kept); otherwise
\* both fields are replaced, exactly one "Matrix Position" entry
\* "{old urgency} / {old importance}" -> "{new urgency} / {new importance}"
\* is appended and updatedAt is refreshed.
C16_Relocate ==
    [][\A q \in DropTargets : \A k \in DOMAIN filteredTasks :
           DropStep(filteredTasks[k].id, q) =>
               IF InQuadrant(taskOf(tasks, filteredTasks[k].id), QUADRANTS[q])
               THEN tasks' = tasks
               ELSE Moved(taskOf(tasks, filteredTasks[k].id),
                          taskOf(tasks', filteredTasks[k].id), QUADRANTS[q], now)]_vars

\* a task was moved although one of its two values was the target's already
C16_Witness ==
    \E k \in DOMAIN tasks :
        /\ tasks[k].history # <<>>
        /\ tasks[k].history[Len(tasks[k].history)].field = "Matrix Position"
        /\ tasks[k].history[Len(tasks[k].history)].oldValue = "Low / Low"
        /\ tasks[k].history[Len(tasks[k].history)].newValue = "Low / High"
        /\ tasks[k].urgency = LOW
        /\ tasks[k].importance = HIGH


\* Save pressed in the editor of a task that does not exist yet
CreateStep ==
    /\ editingTask # null
    /\ editingTask.id = undefined
    /\ \E e \in Entries : handleSubmit(e)

\* C17: a task created by Save has, right after its creation, an empty
\* history, an empty completion ledger and createdAt = updatedAt, whatever
\* the data of the save, a recurring frequency submitted from the editor
\* form included.
C17_CreatedTaskIsBlank ==
    [][CreateStep =>
           /\ Len(tasks') = Len(tasks) + 1
           /\ tasks'[Len(tasks')].history = <<>>
           /\ tasks'[Len(tasks')].completionHistory = EmptyLedger
           /\ tasks'[Len(tasks')].createdAt = tasks'[Len(tasks')].updatedAt]_vars


\* the rows of the review that are selected, as positions of the candidates
SelectedRows == {i + 1 : i \in selectedIds} \cap DOMAIN parsedIncomingTasks

\* the j-th selected candidate, in the order of the file
SelectedRow(j) ==
    parsedIncomingTasks[CHOOSE i \in SelectedRows :
                            Cardinality({x \in SelectedRows : x < i}) = j - 1]

VisibleFields == {"title", "description", "urgency", "importance", "status",
                  "date", "frequency"}

SameVisible(a, b) == \A f \in VisibleFields : a[f] = b[f]

\* the tasks are the selected candidates, one each, in the order of the file
AreSelected(new) ==
    /\ Len(new) = Cardinality(SelectedRows)
    /\ \A j \in DOMAIN new : SameVisible(new[j], SelectedRow(j))

\* C19: from the moment the import text is parsed until Merge or Replace
\* is chosen in the review the collection is unchanged; closing the review
\* leaves it unchanged; Merge appends the selected candidates, and only
\* those, after the untouched existing tasks; Replace makes the collection
\* exactly the selected candidates.
C19_ImportCommitsOnlyOnChoice ==
    [][/\ (\E f \in ImportFiles : handleImportClick(f)) => tasks' = tasks
       /\ (isImportModalOpen /\ ~handleMergeImport /\ ~handleReplaceImport)
              => tasks' = tasks
       /\ handleMergeImport =>
              /\ IsPrefix(tasks, tasks')
              /\ AreSelected(SubSeq(tasks', Len(tasks) + 1, Len(tasks')))
       /\ handleReplaceImport => AreSelected(tasks')]_vars

\* Merge has appended the first of two candidates, the only one selected, to
\* the stored task
C19_Witness ==
    /\ ~isImportModalOpen
    /\ Len(parsedIncomingTasks) = 2
    /\ selectedIds = {0}
    /\ Len(tasks) = 2
    /\ tasks[1].id = 1
    /\ SameVisible(tasks[2], parsedIncomingTasks[1])


\* C20: the destructive bulk operations take effect only after an explicit
\* confirmation: reset empties the collection when the user confirms and
\* leaves it unchanged when the user declines, and the Replace request of
\* the import review does not replace the collection by itself, a separate
\* confirmation has to follow it.
C20_DestructiveNeedsConfirmation ==
    [][/\ \A confirmed \in BOOLEAN :
              handleReset(confirmed) =>
                  tasks' = IF confirmed THEN <<>> ELSE tasks
       /\ (tasks # <<>> /\ handleReplaceImport) => tasks' = tasks]_vars


\* every candidate of the review is selected
AllSelected == selectedIds = 0 .. (Len(parsedIncomingTasks) - 1)

\* Merge pressed with every candidate of the exported file selected
RoundTripStep ==
    /\ parsedIncomingTasks = parseCSV(exportToCSV(tasks))
    /\ AllSelected
    /\ handleMergeImport

\* C18: exportToCSV followed by parseCSV and Merge with all candidates
\* selected yields, for each original task in order, one new task with the
\* same title, description, urgency, importance, status, date and frequency,
\* also when the title or the description contains a comma, a double quote
\* or a newline.
C18_ExportImportRoundTrip ==
    [][RoundTripStep =>
           /\ Len(tasks') = 2 * Len(tasks)
           /\ \A k \in DOMAIN tasks :
                  SameVisible(tasks'[Len(tasks) + k], tasks[k])]_vars


-----------------------------------------------------------------------------
(* Properties of parseCSV on any text *)

\* the least a row must give to be a task: a title
MinimalShape(candidate) == ~Falsy(candidate.title)

\* C21: malformed import text is not fatal: every row that does not parse
\* into the minimal required task shape is absent from the candidates
\* parseCSV returns, and when there is no candidate the review is not opened
\* and the collection is unchanged.
C21_MalformedRowsDropped ==
    [][/\ ImportFile =>
              \A k \in DOMAIN parsedIncomingTasks' :
                  MinimalShape(parsedIncomingTasks'[k])
       /\ parseCSV(probe.text) = <<>> =>
              ~isImportModalOpen' /\ tasks' = tasks]_vars

\* C22: every record parseCSV returns has an empty history list and an
\* empty completion ledger, for every input text, a header row with columns
\* named history or completionHistory included.
C22_ParsedRecordsStartEmpty ==
    \A k \in DOMAIN parsedIncomingTasks :
        /\ parsedIncomingTasks[k].history = <<>>
        /\ parsedIncomingTasks[k].completionHistory = EmptyLedger


-----------------------------------------------------------------------------
(* Properties of the period keys *)

\* the Thursday of the Monday-to-Sunday week of a date, as a day number
IsoThursday(date) == MondayOf(date) + 3

\* ISO 8601: the week belongs to the year of its Thursday, and week 1 is the
\* week of the year's first Thursday
IsoWeek(date) ==
    ((IsoThursday(date)
        - DaysFromCivil(CivilFromDays(IsoThursday(date))[1], 1, 1)) \div 7) + 1

\* C23: for every date d the week number in getPeriodKey(d, Weekly) is the
\* ISO 8601 week number of d (weeks start on Monday, week 1 holds the year's
\* first Thursday), as in getPeriodKey(2024-01-10, Weekly) = "2024-W2".
C23_WeeklyKeyIsIsoWeek ==
    (probe.keys # <<>> /\ probe.frequency = WEEKLY) =>
        probe.keys[1] = ToString(getFullYear(probe.d1)) \o "-W"
                            \o ToString(IsoWeek(probe.d1))

\* C24: getPeriodKey(date, Daily) is the local calendar date of the instant
\* as YYYY-MM-DD, with no shift to UTC, at every host offset and at local
\* midnight as well as later in the day.
C24_DailyKeyIsLocalDate ==
    (probe.keys # <<>> /\ probe.frequency = DAILY) =>
        probe.keys[1] = DateStr(CivilFromDays(LocalDay(probe.d1)))


-----------------------------------------------------------------------------
(* Properties of the anchor adjustment of the editor *)

\* the frequency of a form with an anchor date has been changed
AnchorChanged == probe.op = "changed" /\ probe.form.date # noDate

\* the day number of a date string
DayOf(dateString) == DaysFromCivil(dateString[1], dateString[2], dateString[3])

\* the Monday of the Monday-to-Sunday week of a day number
MondayBefore(day) == day - WeekDiff(DayOfWeek(day), 1)

\* the last day of the week of a day: the Saturday of its Sunday-to-Saturday
\* week or the Sunday of its Monday-to-Sunday week
WeekEnds(day) == {day - WeekDiff(DayOfWeek(day), 0) + 6, MondayBefore(day) + 6}

\* the last day of the month of a date string
MonthEnd(dateString) ==
    DaysFromCivil(dateString[1], dateString[2],
                  daysInMonth(dateString[1], dateString[2]))

\* the anchor the claim lets the editor propose
ProposedAnchors(form, newFreq) ==
    IF newFreq = NONE \/ newFreq = form.frequency THEN {DayOf(form.date)}
    ELSE IF newFreq = WEEKLY THEN WeekEnds(DayOf(form.date))
    ELSE IF newFreq = MONTHLY THEN {MonthEnd(form.date)}
    ELSE {DayOf(form.date)}

\* C25: on a change of frequency in the editor to a frequency that is not
\* None and differs from the current one, the anchor becomes the last day of
\* the week of the previous anchor for Weekly, the last day of its month for
\* Monthly and stays the previous anchor for Daily and Yearly; for None or
\* the current frequency the date is unchanged; at every host offset.
C25_AnchorAdjustment ==
    AnchorChanged =>
        /\ probe.changed.frequency = probe.newFreq
        /\ probe.changed.date # noDate
        /\ DayOf(probe.changed.date) \in ProposedAnchors(probe.form, probe.newFreq)

\* C30: after the adjustment to Weekly from the previous anchor A the new
\* anchor lies in the Monday-to-Sunday week that contains A, the interval
\* the Week view shows for A, for every weekday of A, Sunday included.
C30_WeeklyAnchorInViewWeek ==
    (AnchorChanged /\ probe.newFreq = WEEKLY /\ probe.form.frequency # WEEKLY) =>
        /\ probe.changed.date # noDate
        /\ DayOf(probe.changed.date) \in
               MondayBefore(DayOf(probe.form.date)) ..
                   (MondayBefore(DayOf(probe.form.date)) + 6)


-----------------------------------------------------------------------------
(* Properties of the stored task across saves *)

\* C26: in every reachable state, for every task with frequency None,
\* completedAt is set exactly when the stored status is Done; also after
\* saves that switch a task between a recurring frequency and None while
\* its status is Done, after drags and after imports.
C26_CompletedAtIffDone ==
    \A k \in DOMAIN tasks :
        tasks[k].frequency = NONE =>
            (tasks[k].completedAt # undefined <=> tasks[k].status = DONE)


\* Save pressed in the editor of an existing recurring task with nothing
\* entered
UntouchedSave ==
    /\ editingTask # null
    /\ editingTask.id # undefined
    /\ taskOf(tasks, editingTask.id).frequency \in Recurring
    /\ handleSubmit(NoEntry)

\* C27: an existing recurring task opened in the editor for any contextual
\* date and saved without a change of any field gets no history entry, also
\* when the status recorded for another period differs from the status of
\* the contextual period.
C27_UntouchedSaveNoHistory ==
    [][UntouchedSave =>
           taskOf(tasks', editingTask.id).history
               = taskOf(tasks, editingTask.id).history]_vars


\* the dates around the end of the series, and around the start of its
\* month, on which the task reads as Done
DoneDates(task) ==
    {d \in ProbesAround(task.recurrenceEndedAt)
            \cup ProbesAround(startOfMonth(task.recurrenceEndedAt)) :
        getTaskStatus(task, d) = DONE}

\* the ledger is as it was when the series ended
LedgerKept(old, new) ==
    /\ new.completionHistory = old.completionHistory
    /\ new.status = TODO
    /\ \A d \in DoneDates(old) : getTaskStatus(new, d) = DONE

\* C28: Resume Series changes no entry of the completion ledger: after
\* Complete Series at contextual date D and Resume Series the ledger is as
\* it was right after Complete Series, so the status on D is still Done
\* although the stored status has been reset to To Do.
C28_ResumeKeepsLedger ==
    [][handleResumeSeries =>
           LedgerKept(taskOf(tasks, editingTask.id),
                      taskOf(tasks', editingTask.id))]_vars

\* a resumed series: open again, stored status To Do, and still Done on the
\* date it was ended for
C28_Witness ==
    \E k \in DOMAIN tasks :
        /\ tasks[k].frequency \in Recurring
        /\ tasks[k].recurrenceEndedAt = undefined
        /\ tasks[k].status = TODO
        /\ tasks[k].history # <<>>
        /\ tasks[k].history[Len(tasks[k].history)].field = "Status"
        /\ tasks[k].history[Len(tasks[k].history)].oldValue = "Done"
        /\ getTaskStatus(tasks[k], StoredAt) = DONE

-----------------------------------------------------------------------------
(* Properties of the year grid of the calendar *)

\* the local midnights of the days of a month
MonthDays(y, month) == {MkLocal(y, month, d) : d \in 1..daysInMonth(y, month)}

\* the ids of the tasks the year grid lists under a month
ListedIds(ts, y, month) ==
    {monthTasks(ts, y, month)[j].id : j \in DOMAIN monthTasks(ts, y, month)}

HasOccurrenceIn(task, y, month) ==
    \E d \in MonthDays(y, month) : isTaskActiveOnDate(task, d)

\* C29: in Year view every task that passes the view filter and is active
\* (isTaskActiveOnDate) on some day of a month of the viewed year is listed
\* under that month of the year grid, whatever the day of month of its
\* anchor.
C29_YearGridComplete ==
    viewMode = YEAR =>
        \A month \in 1..12 :
            \A k \in DOMAIN filteredTasks :
                HasOccurrenceIn(filteredTasks[k], getFullYear(currentDate), month)
                    => filteredTasks[k].id
                           \in ListedIds(filteredTasks, getFullYear(currentDate), month)

====
